---- MODULE Spec2Model ----
(***************************************************************************)
(* Model of the gas-bill estimator (src/estimate_jan_bill.py): the script  *)
(* fetches the hourly archive (IEM) and the forecast (NWS), resolves one   *)
(* HDD per day of the billing cycle, sums the remaining days' HDD for the  *)
(* usage projection, and prices the bill.                                  *)
(*                                                                         *)
(* Dates are day ordinals counted from 2025-12-01 (= 1); DateStr gives the *)
(* key the code builds with strftime("%Y-%m-%d").  Temperatures are whole  *)
(* degrees F.  Every quotient the code computes is kept as an exact        *)
(* fraction <<numerator, denominator>> in lowest terms.                    *)
(***************************************************************************)
EXTENDS Integers, Sequences, FiniteSets, TLC

VARIABLES
    billing_end_date,   \* last day of the cycle
    today,              \* the as-of date (midnight of datetime.now())
    hourly_data,        \* result of get_iem_hourly_temps
    nws_periods,        \* the forecast periods the NWS API answered with
    forecast_data,      \* result of get_nws_forecast
    pc,                 \* position in the script
    current_date,       \* loop variable of both loops
    series,             \* the rows printed by the resolver loop
    total_hdd,          \* total_hdd of the resolver loop
    total_ccf,          \* total_ccf of the resolver loop
    remaining_days,     \* days visited by the remaining-days loop
    remaining_hdd,      \* remaining_hdd
    remaining_ccf,      \* remaining_ccf
    temps_in,           \* argument of a direct call of calculate_hourly_hdd
    hdd_out,            \* its result
    meter_latest,       \* latest meter reading (database, or the fallback)
    actual_ccf_so_far,  \* metered usage since the cycle-start reading
    total_ccf_exact,    \* metered usage plus projected remaining usage
    total_ccf_int,      \* int(total_ccf_exact)
    estimated_meter_low,    \* low end of the estimated end-of-cycle reading
    estimated_meter_high,   \* high end of it
    billing_days,       \* days of the cycle
    NDD,                \* normal HDD of the cycle
    ADD,                \* actual HDD of the cycle
    wnaf,               \* WNA factor of the estimate, $/Mcf
    call,               \* arguments of a function called on its own
    result,             \* what that call returned
    last_collection,    \* app.py: the dict the status endpoints report
    thermostat_readings,    \* rows of the table thermostat_readings
    gas_meter_readings, \* rows of the table gas_meter_readings
    connections,        \* database connections that are open
    procs               \* locals and position of each thread or process

vars == <<billing_end_date, today, hourly_data, nws_periods, forecast_data, pc,
          current_date, series, total_hdd, total_ccf, remaining_days,
          remaining_hdd, remaining_ccf, temps_in, hdd_out, meter_latest,
          actual_ccf_so_far, total_ccf_exact, total_ccf_int,
          estimated_meter_low, estimated_meter_high, billing_days, NDD, ADD,
          wnaf, call, result, last_collection, thermostat_readings,
          gas_meter_readings, connections, procs>>

\* the variables of the script's sections after the two loops, and of the
\* functions called on their own
usageVars == <<actual_ccf_so_far, total_ccf_exact, total_ccf_int,
               estimated_meter_low, estimated_meter_high>>
wnaVars == <<billing_days, NDD, ADD, wnaf>>
callVars == <<call, result>>
laterVars == <<meter_latest, usageVars, wnaVars, callVars>>
\* the variables of the collector service and of the database
serviceVars == <<last_collection, thermostat_readings, gas_meter_readings,
                 connections, procs>>

-----------------------------------------------------------------------------
(* Bounds of the model *)

\* the longest cycle has MaxSpan + 1 days (the script's own cycle has 33)
MaxSpan == 2
\* the most days in weather_actual and in weather_estimated (the December
\* script has 26 and 2)
MaxActualDays == 2
MaxEstimatedDays == 1

-----------------------------------------------------------------------------
(* Program constants *)

billing_start_date == 12   \* datetime(2025, 12, 12)
BaseTemp == 65             \* the 65 F base of every HDD formula
MinSamples == 20           \* hourly samples needed for an hourly HDD
LowSpread == 20            \* low = high - 20 when the forecast has no low
FallbackHdd == 25          \* hdd of a day with no usable data
meter_dec_11 == 1339       \* meter reading at the start of the cycle
FallbackReading == 1409    \* meter_latest when the database gives nothing
ndd_daily == 24            \* normal HDD per day
BASE_CHARGE_MONTHLY == 25  \* monthly base charge, $
estimated_ndd_daily == 24  \* normal HDD per day of the December estimate
customer_charge == 25      \* customer charge of the estimated bill, $

\* ccf_per_hdd = 0.12
ccf_per_hdd == <<3, 25>>

\* the tariff: R = 1.6261 $/Mcf, HSF = 0.012576, BL = 1.0556
R == <<16261, 10000>>
HSF == <<393, 31250>>
BL == <<2639, 2500>>
\* KY_RESIDENTIAL on the Ccf basis: R_ccf = 0.16261, HSF = 0.12576, BL = 10.556
R_ccf == <<16261, 100000>>
HSF_ccf == <<393, 3125>>
BL_ccf == <<2639, 250>>
\* RIDERS["PRP"] = 0.8214 $/Mcf
PRP == <<4107, 5000>>
\* the per-Ccf rates of the estimated bill: gas cost 0.54034, school fee
\* 0.03, franchise fee 0.01
gas_cost_rate == <<27017, 50000>>
school_fee_rate == <<3, 100>>
franchise_fee_rate == <<1, 100>>

-----------------------------------------------------------------------------
(* Exact fractions *)

Abs(x) == IF x < 0 THEN -x ELSE x

RECURSIVE GCD(_, _)
GCD(a, b) == IF b = 0 THEN a ELSE GCD(b, a % b)

\* n/d in lowest terms, d > 0
Frac(n, d) ==
    LET g == GCD(Abs(n), Abs(d))
        s == IF d < 0 THEN -1 ELSE 1
    IN  <<(s * n) \div g, (s * d) \div g>>

Whole(n) == <<n, 1>>
\* the operations go through the least common denominator and cancel common
\* factors before they multiply, which keeps the numbers small
LCM(a, b) == (a \div GCD(a, b)) * b
FAdd(x, y) ==
    LET l == LCM(x[2], y[2])
    IN  Frac(x[1] * (l \div x[2]) + y[1] * (l \div y[2]), l)
FNeg(x) == <<-x[1], x[2]>>
FSub(x, y) == FAdd(x, FNeg(y))
FMul(x, y) ==
    LET g1 == GCD(Abs(x[1]), y[2])
        g2 == GCD(Abs(y[1]), x[2])
    IN  Frac((x[1] \div g1) * (y[1] \div g2), (x[2] \div g2) * (y[2] \div g1))
\* x / y for y # 0
FQuot(x, y) == FMul(x, Frac(y[2], y[1]))
\* a / b <= c / d for b, d > 0: by the whole parts, then by the reciprocals
\* of the fractional parts
RECURSIVE LeQ(_, _, _, _)
LeQ(a, b, c, d) ==
    IF a \div b # c \div d THEN a \div b < c \div d
    ELSE IF a % b = 0 THEN TRUE
    ELSE IF c % d = 0 THEN FALSE
    ELSE LeQ(d, c % d, b, a % b)
FLe(x, y) == LeQ(x[1], x[2], y[1], y[2])
FLt(x, y) == FLe(x, y) /\ x # y
\* floor(n * 10^k / d) and what is left over, one decimal digit at a time
RECURSIVE ScaledFloor(_, _, _)
ScaledFloor(n, d, k) ==
    IF k = 0 THEN <<n \div d, n % d>>
    ELSE LET p == ScaledFloor(n, d, k - 1)
         IN  <<p[1] * 10 + (p[2] * 10) \div d, (p[2] * 10) % d>>
RECURSIVE Pow10(_)
Pow10(k) == IF k = 0 THEN 1 ELSE 10 * Pow10(k - 1)
\* round(x, k): to k decimals, a tie to the even neighbour
Round(x, k) ==
    LET p == ScaledFloor(Abs(x[1]), x[2], k)
        m == IF 2 * p[2] > x[2] \/ (2 * p[2] = x[2] /\ p[1] % 2 = 1)
             THEN p[1] + 1 ELSE p[1]
    IN  Frac(IF x[1] < 0 THEN -m ELSE m, Pow10(k))
\* math.floor(x), and int(x), which truncates toward zero
Floor(x) == x[1] \div x[2]
Trunc(x) == IF x[1] >= 0 THEN x[1] \div x[2] ELSE -((-x[1]) \div x[2])

\* Python's max(0, x)
Max0(x) == IF FLe(x, Whole(0)) THEN Whole(0) ELSE x

-----------------------------------------------------------------------------
(* Python values *)

\* None and a present value; a present number is falsy when it is 0
None == <<>>
Some(x) == <<x>>
Truthy(o) == o # None /\ o[1] # 0

\* a failed fetch returns None, a successful one a dict
NoData == [none |-> TRUE, map |-> [k \in {} |-> None]]
Dict(m) == [none |-> FALSE, map |-> m]
\* `d and key in d`: None and the empty dict are falsy
HasKey(d, k) == ~d.none /\ DOMAIN d.map # {} /\ k \in DOMAIN d.map

\* current_date.strftime("%Y-%m-%d")
DateStr(d) == IF d <= 31 THEN <<2025, 12, d>> ELSE <<2026, 1, d - 31>>

RECURSIVE Rep(_, _)
Rep(t, k) == IF k = 0 THEN <<>> ELSE <<t>> \o Rep(t, k - 1)

RECURSIVE SeqSum(_)
SeqSum(s) == IF s = <<>> THEN 0 ELSE Head(s) + SeqSum(Tail(s))

SeqMax(s) == CHOOSE x \in {s[i] : i \in DOMAIN s} : \A i \in DOMAIN s : s[i] <= x
SeqMin(s) == CHOOSE x \in {s[i] : i \in DOMAIN s} : \A i \in DOMAIN s : x <= s[i]

-----------------------------------------------------------------------------
(* Degree-day formulas *)

\* max(0, 65 - (high + low) / 2)
HddHighLowUnclamped(high, low) == FSub(Whole(BaseTemp), Frac(high + low, 2))
HddHighLow(high, low) == Max0(FSub(Whole(BaseTemp), Frac(high + low, 2)))

\* sum(max(0, 65 - temp) for temp in temps)
RECURSIVE DegreeHours(_)
DegreeHours(temps) ==
    IF temps = <<>> THEN 0
    ELSE (IF BaseTemp - Head(temps) > 0 THEN BaseTemp - Head(temps) ELSE 0)
         + DegreeHours(Tail(temps))

calculate_hourly_hdd_per24(temps) ==
    IF temps = <<>> \/ Len(temps) < MinSamples
    THEN None
    ELSE Some(Frac(DegreeHours(temps), 24))

\* calculate_hourly_hdd: None below the sample threshold, else the mean of the
\* hourly degree-hours
calculate_hourly_hdd(temps) ==
    IF temps = <<>> \/ Len(temps) < MinSamples
    THEN None
    ELSE Some(Frac(DegreeHours(temps), Len(temps)))

-----------------------------------------------------------------------------
(* get_nws_forecast *)

\* the loop over periods: high from the daytime period, low from the night one
RECURSIVE DailyForecasts(_, _)
DailyForecasts(periods, acc) ==
    IF periods = <<>> THEN acc
    ELSE LET p == Head(periods)
             date_key == DateStr(p.start_date)
             old == IF date_key \in DOMAIN acc THEN acc[date_key]
                    ELSE [high |-> None, low |-> None]
             new == IF p.isDaytime THEN [old EXCEPT !.high = Some(p.temperature)]
                    ELSE [old EXCEPT !.low = Some(p.temperature)]
         IN  DailyForecasts(Tail(periods),
                 [k \in DOMAIN acc \cup {date_key} |->
                     IF k = date_key THEN new ELSE acc[k]])

\* "Fill in missing lows"
FillLow(fc) ==
    IF fc.low = None /\ Truthy(fc.high)
    THEN [fc EXCEPT !.low = Some(fc.high[1] - LowSpread)]
    ELSE fc

get_nws_forecast(periods) ==
    LET daily == DailyForecasts(periods, [k \in {} |-> None])
    IN  Dict([k \in DOMAIN daily |-> FillLow(daily[k])])

-----------------------------------------------------------------------------
(* What the two services can answer *)

CycleDays == billing_start_date .. billing_end_date

\* the archive is asked for billing_start_date..today; only days of the cycle
\* are ever looked up
HourDays == {d \in CycleDays : d <= today}

\* a full cold day, a full day that crosses 65 F, a day one sample short
HourlyChoices == {Rep(30, 20), Rep(45, 10) \o Rep(95, 10), Rep(40, 18) \o <<90>>}

\* the forecast starts at the station's current local day, which is the day
\* before `today` when the host clock (UTC) is already past midnight; only
\* days from min(billing_start_date, today) to billing_end_date are looked up
FcFirst == IF today < billing_start_date THEN today ELSE billing_start_date
FcDays == {d \in FcFirst .. billing_end_date : d >= today - 1}

Highs == {0, 90}
Lows == {35}
\* the periods of one day: daytime only, night only, or both
DayChoices ==
    {<<>>}
    \cup {<<[isDaytime |-> TRUE, temperature |-> h]>> : h \in Highs}
    \cup {<<[isDaytime |-> FALSE, temperature |-> l]>> : l \in Lows}
    \cup {<<[isDaytime |-> TRUE, temperature |-> h],
            [isDaytime |-> FALSE, temperature |-> l]>> : h \in Highs, l \in Lows}

Stamp(ps, d) ==
    [i \in DOMAIN ps |-> [start_date |-> d, isDaytime |-> ps[i].isDaytime,
                          temperature |-> ps[i].temperature]]

\* the periods of days from..to in time order, c[d] being day d's periods
RECURSIVE Periods(_, _, _)
Periods(c, from, to) ==
    IF from > to THEN <<>>
    ELSE (IF from \in DOMAIN c THEN Stamp(c[from], from) ELSE <<>>)
         \o Periods(c, from + 1, to)

\* readings the database can hold: one below the cycle-start reading, one
\* above it
MeterReadings == {1335, 1409}

\* the sections after the loops have not run
NotYetComputed ==
    /\ actual_ccf_so_far = Whole(0)
    /\ total_ccf_exact = Whole(0)
    /\ total_ccf_int = 0
    /\ estimated_meter_low = 0
    /\ estimated_meter_high = 0
    /\ billing_days = 0
    /\ NDD = 0
    /\ ADD = Whole(0)
    /\ wnaf = Whole(0)

\* no function is called on its own
NoCall == call = <<>> /\ result = <<>>

\* last_collection as app.py creates it
NotRun == [time |-> None, status |-> "not run", error |-> None, data |-> None]

\* no service, no database client
ServiceIdle ==
    /\ last_collection = NotRun
    /\ thermostat_readings = <<>>
    /\ gas_meter_readings = <<>>
    /\ connections = {}
    /\ procs = <<>>

-----------------------------------------------------------------------------
(* The script *)

Init ==
    /\ billing_end_date \in (billing_start_date - 1) .. (billing_start_date + MaxSpan)
    /\ today \in (billing_start_date - 1) .. (billing_start_date + MaxSpan + 1)
    /\ hourly_data = NoData
    /\ nws_periods = <<>>
    /\ forecast_data = NoData
    /\ pc = "read_meter"
    /\ current_date = billing_start_date
    /\ series = <<>>
    /\ total_hdd = Whole(0)
    /\ total_ccf = Whole(0)
    /\ remaining_days = <<>>
    /\ remaining_hdd = Whole(0)
    /\ remaining_ccf = Whole(0)
    /\ temps_in = <<>>
    /\ hdd_out = None
    /\ meter_latest = 0
    /\ NotYetComputed
    /\ NoCall
    /\ ServiceIdle

\* the database answers with its latest reading; with no row, or when the
\* connection fails, the script falls back to 1409
ReadMeter ==
    /\ pc = "read_meter"
    /\ \/ \E reading \in MeterReadings : meter_latest' = reading
       \/ meter_latest' = FallbackReading
    /\ pc' = "fetch_iem"
    /\ UNCHANGED <<billing_end_date, today, hourly_data, nws_periods,
                   forecast_data, current_date, series, total_hdd, total_ccf,
                   remaining_days, remaining_hdd, remaining_ccf, temps_in,
                   hdd_out, usageVars, wnaVars, callVars,
                   serviceVars>>

\* hourly_data = get_iem_hourly_temps(billing_start_date, today): None when
\* the request fails, else the samples of each day the archive has
FetchIEM ==
    /\ pc = "fetch_iem"
    /\ \/ hourly_data' = NoData
       \/ \E S \in SUBSET HourDays :
            \E m \in [{DateStr(d) : d \in S} -> HourlyChoices] :
                hourly_data' = Dict(m)
    /\ pc' = "fetch_nws"
    /\ UNCHANGED <<billing_end_date, today, nws_periods, forecast_data,
                   current_date, series, total_hdd, total_ccf, remaining_days,
                   remaining_hdd, remaining_ccf, temps_in, hdd_out,
                   laterVars,
                   serviceVars>>

\* forecast_data = get_nws_forecast(): None when a request fails
FetchNWS ==
    /\ pc = "fetch_nws"
    /\ \/ /\ nws_periods' = <<>>
          /\ forecast_data' = NoData
       \/ \E c \in [FcDays -> DayChoices] :
            /\ nws_periods' = Periods(c, FcFirst, billing_end_date)
            /\ forecast_data' = get_nws_forecast(nws_periods')
    /\ pc' = "resolve"
    /\ current_date' = billing_start_date
    /\ UNCHANGED <<billing_end_date, today, hourly_data, series, total_hdd,
                   total_ccf, remaining_days, remaining_hdd, remaining_ccf,
                   temps_in, hdd_out,
                   laterVars,
                   serviceVars>>

\* `len(temps) >= 20` of the resolver loop
SufficientOffByOne(temps) == Len(temps) > MinSamples
Sufficient(temps) == Len(temps) >= MinSamples

\* `fc["high"] and fc["low"]`
BothUsable(fc) == Truthy(fc.high) /\ Truthy(fc.low)

\* `current_date < today`, the test that sends a day to the archive
IsPastOrToday(d) == d <= today
IsPast(d) == d < today

\* the body of the resolver loop for day d: its hdd and its source tag
ResolveRow(d) ==
    LET date_str == DateStr(d) IN
    IF IsPast(d) /\ HasKey(hourly_data, date_str)
    THEN LET temps == hourly_data.map[date_str] IN
         IF Sufficient(temps)
         THEN [date |-> d, hdd |-> calculate_hourly_hdd(temps), source |-> "IEM"]
         ELSE [date |-> d,
               hdd |-> IF temps # <<>>
                       THEN Some(Max0(FSub(Whole(BaseTemp),
                                           Frac(SeqMax(temps) + SeqMin(temps), 2))))
                       ELSE Some(Whole(0)),
               source |-> "IEM*"]
    ELSE IF HasKey(forecast_data, date_str)
    THEN LET fc == forecast_data.map[date_str] IN
         IF BothUsable(fc)
         THEN [date |-> d, hdd |-> Some(HddHighLow(fc.high[1], fc.low[1])),
               source |-> "NWS"]
         ELSE [date |-> d, hdd |-> Some(Whole(FallbackHdd)), source |-> "Est"]
    ELSE [date |-> d, hdd |-> Some(Whole(FallbackHdd)), source |-> "Est"]

\* `while current_date <= billing_end_date`
InCycleExclusive(d) == d < billing_end_date
InCycle(d) == d <= billing_end_date

\* one pass of the resolver loop; adding a None hdd to the totals raises
ResolveDay ==
    /\ pc = "resolve"
    /\ InCycle(current_date)
    /\ LET row == ResolveRow(current_date) IN
       /\ series' = Append(series, row)
       /\ IF row.hdd = None
          THEN /\ pc' = "raised"
               /\ UNCHANGED <<total_hdd, total_ccf, current_date,
                   laterVars,
                   serviceVars>>
          ELSE /\ total_hdd' = FAdd(total_hdd, row.hdd[1])
               /\ total_ccf' = FAdd(total_ccf, FMul(row.hdd[1], ccf_per_hdd))
               /\ current_date' = current_date + 1
               /\ pc' = pc
    /\ UNCHANGED <<billing_end_date, today, hourly_data, nws_periods,
                   forecast_data, remaining_days, remaining_hdd, remaining_ccf,
                   temps_in, hdd_out,
                   laterVars,
                   serviceVars>>

\* the resolver loop ends; the remaining-days loop starts at today
ResolveEnd ==
    /\ pc = "resolve"
    /\ ~InCycle(current_date)
    /\ remaining_hdd' = Whole(0)
    /\ remaining_ccf' = Whole(0)
    /\ current_date' = today
    /\ pc' = "remaining"
    /\ UNCHANGED <<billing_end_date, today, hourly_data, nws_periods,
                   forecast_data, series, total_hdd, total_ccf, remaining_days,
                   temps_in, hdd_out,
                   laterVars,
                   serviceVars>>

\* what one day adds to remaining_hdd
RemainingHdd(d) ==
    LET date_str == DateStr(d) IN
    IF HasKey(forecast_data, date_str)
    THEN LET fc == forecast_data.map[date_str] IN
         IF BothUsable(fc) THEN HddHighLow(fc.high[1], fc.low[1]) ELSE Whole(0)
    ELSE Whole(FallbackHdd)

\* one pass of the remaining-days loop
RemainingDay ==
    /\ pc = "remaining"
    /\ InCycle(current_date)
    /\ remaining_days' = Append(remaining_days, current_date)
    /\ remaining_hdd' = FAdd(remaining_hdd, RemainingHdd(current_date))
    /\ remaining_ccf' = FAdd(remaining_ccf,
                             FMul(RemainingHdd(current_date), ccf_per_hdd))
    /\ current_date' = current_date + 1
    /\ UNCHANGED <<billing_end_date, today, hourly_data, nws_periods,
                   forecast_data, pc, series, total_hdd, total_ccf, temps_in,
                   hdd_out,
                   laterVars,
                   serviceVars>>

\* the remaining-days loop ends; the script goes on to the usage calculation
RemainingEnd ==
    /\ pc = "remaining"
    /\ ~InCycle(current_date)
    /\ pc' = "usage"
    /\ UNCHANGED <<billing_end_date, today, hourly_data, nws_periods,
                   forecast_data, current_date, series, total_hdd, total_ccf,
                   remaining_days, remaining_hdd, remaining_ccf, temps_in,
                   hdd_out,
                   laterVars,
                   serviceVars>>

\* the usage section: metered usage so far plus the projection, the whole
\* CCF the meter would show, and the estimated end-of-cycle reading
UsageTotal(exact) == Trunc(exact)
MeterDelta(latest) == latest - meter_dec_11
MeterHigh(low) == low + 1

Usage ==
    /\ pc = "usage"
    /\ actual_ccf_so_far' = Whole(MeterDelta(meter_latest))
    /\ total_ccf_exact' = FAdd(actual_ccf_so_far', remaining_ccf)
    /\ total_ccf_int' = UsageTotal(total_ccf_exact')
    /\ estimated_meter_low' = meter_dec_11 + total_ccf_int'
    /\ estimated_meter_high' = MeterHigh(estimated_meter_low')
    /\ total_ccf' = Whole(total_ccf_int')
    /\ pc' = "wna"
    /\ UNCHANGED <<billing_end_date, today, hourly_data, nws_periods,
                   forecast_data, current_date, series, total_hdd,
                   remaining_days, remaining_hdd, remaining_ccf, temps_in,
                   hdd_out, meter_latest, wnaVars, callVars,
                   serviceVars>>

\* the WNA factor as the script writes it, R * (HSF * (NDD - ADD)) /
\* (BL + HSF * ADD), with nothing in front of the division: a zero
\* denominator raises ZeroDivisionError
WnafFormula(r, hsf, bl, ndd, add) ==
    FQuot(FMul(r, FMul(hsf, FSub(ndd, add))), FAdd(bl, FMul(hsf, add)))
WnafInline(r, hsf, bl, ndd, add) ==
    IF FAdd(bl, FMul(hsf, add)) = Whole(0)
    THEN [raised |-> TRUE, value |-> Whole(0)]
    ELSE [raised |-> FALSE, value |-> WnafFormula(r, hsf, bl, ndd, add)]

\* `if NDD > ADD` picks the wording printed next to the factor
WnaLabel(ndd, add) == IF FLt(add, ndd) THEN "SURCHARGE" ELSE "CREDIT"

\* the WNA section: ADD is the cycle's total HDD, NDD is 24 a day; the
\* bill section that follows it is bill_estimate, run on its own below
Wna ==
    /\ pc = "wna"
    /\ ADD' = total_hdd
    /\ billing_days' = (billing_end_date - billing_start_date) + 1
    /\ NDD' = billing_days' * ndd_daily
    /\ LET w == WnafInline(R, HSF, BL, Whole(NDD'), ADD') IN
       IF w.raised
       THEN /\ pc' = "raised"
            /\ wnaf' = wnaf
       ELSE /\ pc' = "bill"
            /\ wnaf' = w.value
    /\ UNCHANGED <<billing_end_date, today, hourly_data, nws_periods,
                   forecast_data, current_date, series, total_hdd, total_ccf,
                   remaining_days, remaining_hdd, remaining_ccf, temps_in,
                   hdd_out, meter_latest, usageVars, callVars,
                   serviceVars>>

Next ==
    \/ ReadMeter
    \/ FetchIEM
    \/ FetchNWS
    \/ ResolveDay
    \/ ResolveEnd
    \/ RemainingDay
    \/ RemainingEnd
    \/ Usage
    \/ Wna

Spec == Init /\ [][Next]_vars

-----------------------------------------------------------------------------
(* calculate_hourly_hdd called on its own *)

SampleTemps == {30, 65, 80}
SampleCounts == {0, 9, 10, 11, 20}
SampleLists ==
    {Rep(a, k) \o Rep(b, m) : a \in SampleTemps, b \in SampleTemps,
                              k \in SampleCounts, m \in SampleCounts}

InitHourly ==
    /\ billing_end_date = billing_start_date
    /\ today = billing_start_date
    /\ hourly_data = NoData
    /\ nws_periods = <<>>
    /\ forecast_data = NoData
    /\ pc = "call"
    /\ current_date = billing_start_date
    /\ series = <<>>
    /\ total_hdd = Whole(0)
    /\ total_ccf = Whole(0)
    /\ remaining_days = <<>>
    /\ remaining_hdd = Whole(0)
    /\ remaining_ccf = Whole(0)
    /\ temps_in \in SampleLists
    /\ hdd_out = None
    /\ meter_latest = 0
    /\ NotYetComputed
    /\ NoCall
    /\ ServiceIdle

CallHourlyHdd ==
    /\ pc = "call"
    /\ hdd_out' = calculate_hourly_hdd(temps_in)
    /\ pc' = "returned"
    /\ UNCHANGED <<billing_end_date, today, hourly_data, nws_periods,
                   forecast_data, current_date, series, total_hdd, total_ccf,
                   remaining_days, remaining_hdd, remaining_ccf, temps_in,
                   laterVars,
                   serviceVars>>

NextHourly == CallHourlyHdd

SpecHourly == InitHourly /\ [][NextHourly]_vars

-----------------------------------------------------------------------------
(* The WNA factor and the distribution bill, called on their own *)

\* the script's variables while a function is called on its own
ScriptIdle ==
    /\ billing_end_date = billing_start_date
    /\ today = billing_start_date
    /\ hourly_data = NoData
    /\ nws_periods = <<>>
    /\ forecast_data = NoData
    /\ current_date = billing_start_date
    /\ series = <<>>
    /\ total_hdd = Whole(0)
    /\ total_ccf = Whole(0)
    /\ remaining_days = <<>>
    /\ remaining_hdd = Whole(0)
    /\ remaining_ccf = Whole(0)
    /\ temps_in = <<>>
    /\ hdd_out = None
    /\ meter_latest = 0
    /\ NotYetComputed

\* calculate_wna_factor_mcf(R, HSF, BL, NDD, ADD)
calculate_wna_factor_mcf_unadjusted(r, hsf, bl, ndd, add) ==
    LET numerator == FMul(hsf, ndd)
        denominator == FAdd(bl, FMul(hsf, add))
    IN  IF denominator = Whole(0) THEN Whole(0)
        ELSE FMul(r, FQuot(numerator, denominator))
calculate_wna_factor_mcf_normal_denominator(r, hsf, bl, ndd, add) ==
    IF ndd = add THEN Whole(0)
    ELSE LET numerator == FMul(hsf, FSub(ndd, add))
             denominator == FAdd(bl, FMul(hsf, ndd))
         IN  IF denominator = Whole(0) THEN Whole(0)
             ELSE FMul(r, FQuot(numerator, denominator))
calculate_wna_factor_mcf_reversed(r, hsf, bl, ndd, add) ==
    IF ndd = add THEN Whole(0)
    ELSE LET numerator == FMul(hsf, FSub(add, ndd))
             denominator == FAdd(bl, FMul(hsf, add))
         IN  IF denominator = Whole(0) THEN Whole(0)
             ELSE FMul(r, FQuot(numerator, denominator))
calculate_wna_factor_mcf(r, hsf, bl, ndd, add) ==
    IF ndd = add THEN Whole(0)
    ELSE LET numerator == FMul(hsf, FSub(ndd, add))
             denominator == FAdd(bl, FMul(hsf, add))
         IN  IF denominator = Whole(0) THEN Whole(0)
             ELSE FMul(r, FQuot(numerator, denominator))

\* calculate_wna_factor_ccf(R_ccf, HSF, BL, NDD, ADD)
calculate_wna_factor_ccf(r_ccf, hsf, bl, ndd, add) ==
    IF ndd = add THEN Whole(0)
    ELSE LET numerator == FMul(hsf, FSub(ndd, add))
             denominator == FAdd(bl, FMul(hsf, add))
         IN  IF denominator = Whole(0) THEN Whole(0)
             ELSE FMul(r_ccf, FQuot(numerator, denominator))

\* calculate_bill(usage_mcf, NDD, ADD, winter_month): the distribution part
\* of the bill; `exact` keeps total_distribution before round(.., 2) and
\* `items` the amounts it adds up
calculate_bill(usage_mcf, ndd, add, winter_month) ==
    LET base_charge == Whole(BASE_CHARGE_MONTHLY)
        distribution_volumetric == FMul(usage_mcf, R)
        factor == IF winter_month
                  THEN calculate_wna_factor_mcf(R, HSF, BL, ndd, add)
                  ELSE Whole(0)
        wna_amount == IF winter_month THEN FMul(factor, usage_mcf) ELSE Whole(0)
        prp_amount == FMul(usage_mcf, PRP)
        total_distribution ==
            FAdd(FAdd(FAdd(base_charge, distribution_volumetric), wna_amount),
                 prp_amount)
    IN  [usage_mcf |-> usage_mcf,
         base_charge |-> Round(base_charge, 2),
         distribution_volumetric |-> Round(distribution_volumetric, 2),
         wnaf_per_mcf |-> Round(factor, 6),
         wna_amount |-> Round(wna_amount, 2),
         prp_amount |-> Round(prp_amount, 2),
         total_distribution |-> Round(total_distribution, 2),
         exact |-> total_distribution,
         items |-> <<base_charge, distribution_volumetric, wna_amount,
                     prp_amount>>,
         wna_effect |-> IF FLt(ndd, add) THEN "CREDIT (bill reduced)"
                        ELSE IF FLt(add, ndd) THEN "SURCHARGE (bill increased)"
                        ELSE "No adjustment"]

\* the factor as calculate_oct_bill.py writes it: the division is unguarded
WnafInlineOct(r, hsf, bl, ndd, add) ==
    IF FAdd(bl, FMul(hsf, add)) = Whole(0)
    THEN [raised |-> TRUE, value |-> Whole(0)]
    ELSE [raised |-> FALSE, value |-> WnafFormula(r, hsf, bl, ndd, add)]

\* the factor as estimate_dec_bill.py and calculate_nov_bill.py write it:
\* `if BL + (HSF * ADD) != 0: wnaf = ... else: wnaf = 0`
WnafInlineDec(r, hsf, bl, ndd, add) ==
    IF FAdd(bl, FMul(hsf, add)) # Whole(0)
    THEN [raised |-> FALSE, value |-> WnafFormula(r, hsf, bl, ndd, add)]
    ELSE [raised |-> FALSE, value |-> Whole(0)]
WnafInlineNov(r, hsf, bl, ndd, add) ==
    IF FAdd(bl, FMul(hsf, add)) # Whole(0)
    THEN [raised |-> FALSE, value |-> WnafFormula(r, hsf, bl, ndd, add)]
    ELSE [raised |-> FALSE, value |-> Whole(0)]

\* the tariffs the factor is called with: the filed one on both bases, and
\* small ones, some of which make BL + HSF * ADD zero
Tariff(r, hsf, bl) == [R |-> r, HSF |-> hsf, BL |-> bl]
FiledTariffs == {Tariff(R, HSF, BL), Tariff(R_ccf, HSF_ccf, BL_ccf)}
SmallTariffs ==
    {Tariff(r, hsf, bl) : r \in {Whole(0), Whole(2), Whole(-1)},
                          hsf \in {Whole(0), <<1, 2>>, <<-1, 100>>},
                          bl \in {Whole(0), Whole(1), Whole(6), Whole(-3)}}
\* degree days of a cycle
DegreeDays == {Whole(0), Whole(6), <<25, 2>>, Whole(450), Whole(600), Whole(750)}
\* usage in Mcf
Usages == {Whole(0), Whole(5)}
\* the degree days of the example scenarios
ScenarioDegreeDays == {Whole(450), Whole(600), Whole(750)}

FactorFunctions == {"calculate_wna_factor_mcf", "calculate_wna_factor_ccf",
                    "estimate_jan_bill", "calculate_oct_bill",
                    "estimate_dec_bill", "calculate_nov_bill"}
WnaCall(fn, t, ndd, add, usage, winter) ==
    [fn |-> fn, R |-> t.R, HSF |-> t.HSF, BL |-> t.BL, NDD |-> ndd, ADD |-> add,
     usage_mcf |-> usage, winter_month |-> winter]
WnaCalls ==
    {WnaCall(fn, t, ndd, add, Whole(5), TRUE) :
        fn \in FactorFunctions, t \in SmallTariffs, ndd \in DegreeDays,
        add \in DegreeDays}
    \cup
    {WnaCall(fn, t, ndd, add, Whole(5), TRUE) :
        fn \in FactorFunctions, t \in FiledTariffs,
        ndd \in ScenarioDegreeDays, add \in ScenarioDegreeDays}
    \cup
    {WnaCall("calculate_bill", Tariff(R, HSF, BL), ndd, add, usage, winter) :
        ndd \in ScenarioDegreeDays, add \in ScenarioDegreeDays,
        usage \in Usages, winter \in BOOLEAN}

InitWna ==
    /\ ScriptIdle
    /\ ServiceIdle
    /\ pc = "call"
    /\ call \in WnaCalls
    /\ result = <<>>

\* a function that returns
Returns(fn, value) ==
    /\ pc = "call"
    /\ call.fn = fn
    /\ result' = value
    /\ pc' = "returned"
    /\ UNCHANGED <<billing_end_date, today, hourly_data, nws_periods,
                   forecast_data, current_date, series, total_hdd, total_ccf,
                   remaining_days, remaining_hdd, remaining_ccf, temps_in,
                   hdd_out, meter_latest, usageVars, wnaVars, call,
                   serviceVars>>

\* a script's inline computation: it goes on with the factor, or stops with
\* ZeroDivisionError
Inline(fn, w) ==
    /\ pc = "call"
    /\ call.fn = fn
    /\ result' = w
    /\ pc' = IF w.raised THEN "raised" ELSE "returned"
    /\ UNCHANGED <<billing_end_date, today, hourly_data, nws_periods,
                   forecast_data, current_date, series, total_hdd, total_ccf,
                   remaining_days, remaining_hdd, remaining_ccf, temps_in,
                   hdd_out, meter_latest, usageVars, wnaVars, call,
                   serviceVars>>

CallWnaFactorMcf ==
    Returns("calculate_wna_factor_mcf",
            [raised |-> FALSE,
             value |-> calculate_wna_factor_mcf(call.R, call.HSF, call.BL,
                                                call.NDD, call.ADD)])
CallWnaFactorCcf ==
    Returns("calculate_wna_factor_ccf",
            [raised |-> FALSE,
             value |-> calculate_wna_factor_ccf(call.R, call.HSF, call.BL,
                                                call.NDD, call.ADD)])
CallCalculateBill ==
    Returns("calculate_bill",
            calculate_bill(call.usage_mcf, call.NDD, call.ADD, call.winter_month))
InlineJan ==
    Inline("estimate_jan_bill",
           WnafInline(call.R, call.HSF, call.BL, call.NDD, call.ADD))
InlineOct ==
    Inline("calculate_oct_bill",
           WnafInlineOct(call.R, call.HSF, call.BL, call.NDD, call.ADD))
InlineDec ==
    Inline("estimate_dec_bill",
           WnafInlineDec(call.R, call.HSF, call.BL, call.NDD, call.ADD))
InlineNov ==
    Inline("calculate_nov_bill",
           WnafInlineNov(call.R, call.HSF, call.BL, call.NDD, call.ADD))

NextWna ==
    \/ CallWnaFactorMcf
    \/ CallWnaFactorCcf
    \/ CallCalculateBill
    \/ InlineJan
    \/ InlineOct
    \/ InlineDec
    \/ InlineNov

SpecWna == InitWna /\ [][NextWna]_vars

-----------------------------------------------------------------------------
(* The bill section of the estimate, and calculate_bill, on their own *)

\* the amounts of a list, each rounded to cents
RoundEach(amounts) == [i \in DOMAIN amounts |-> Round(amounts[i], 2)]
\* a + b + ... from left to right
RECURSIVE FSum(_)
FSum(amounts) ==
    IF amounts = <<>> THEN Whole(0)
    ELSE FAdd(FSum(SubSeq(amounts, 1, Len(amounts) - 1)), amounts[Len(amounts)])

\* the bill section: the line amounts in the order the script adds them,
\* their total, and both as printed with two decimals
bill_estimate_sum_of_printed(usage_ccf, factor) ==
    LET usage_mcf == Frac(usage_ccf, 10)
        items == <<Whole(customer_charge), FMul(usage_mcf, R),
                   FMul(usage_mcf, factor), FMul(usage_mcf, PRP),
                   FMul(Whole(usage_ccf), gas_cost_rate),
                   FMul(Whole(usage_ccf), school_fee_rate),
                   FMul(Whole(usage_ccf), franchise_fee_rate)>>
        total_bill == FSum(RoundEach(items))
    IN  [items |-> items, total_bill |-> total_bill,
         printed |-> RoundEach(items), printed_total |-> Round(total_bill, 2)]
bill_estimate(usage_ccf, factor) ==
    LET usage_mcf == Frac(usage_ccf, 10)
        distribution_base == FMul(usage_mcf, R)
        wna_charge == FMul(usage_mcf, factor)
        prp_charge == FMul(usage_mcf, PRP)
        gas_cost == FMul(Whole(usage_ccf), gas_cost_rate)
        school_fee == FMul(Whole(usage_ccf), school_fee_rate)
        franchise_fee == FMul(Whole(usage_ccf), franchise_fee_rate)
        items == <<Whole(customer_charge), distribution_base, wna_charge,
                   prp_charge, gas_cost, school_fee, franchise_fee>>
        total_bill ==
            FAdd(FAdd(FAdd(FAdd(FAdd(FAdd(Whole(customer_charge),
                 distribution_base), wna_charge), prp_charge), gas_cost),
                 school_fee), franchise_fee)
    IN  [items |-> items, total_bill |-> total_bill,
         printed |-> RoundEach(items), printed_total |-> Round(total_bill, 2)]

\* whole-CCF usages, one of them what a meter reading below the start
\* reading leaves, and factors of four decimals
BillUsages == {-3, 0, 1, 7, 33, 70}
BillFactors == {Whole(0), Frac(-2925, 10000), Frac(4568, 10000), Frac(1, 10)}
BillCalls ==
    {[fn |-> "bill_estimate", usage_ccf |-> u, wnaf |-> w] :
        u \in BillUsages, w \in BillFactors}
    \cup
    {WnaCall("calculate_bill", Tariff(R, HSF, BL), ndd, add, usage, winter) :
        ndd \in ScenarioDegreeDays, add \in ScenarioDegreeDays,
        usage \in Usages, winter \in BOOLEAN}

InitBill ==
    /\ ScriptIdle
    /\ ServiceIdle
    /\ pc = "call"
    /\ call \in BillCalls
    /\ result = <<>>

\* the bill is printed; the effective rates after it divide by usage_ccf
EstimateBill ==
    /\ pc = "call"
    /\ call.fn = "bill_estimate"
    /\ result' = bill_estimate(call.usage_ccf, call.wnaf)
    /\ pc' = IF call.usage_ccf = 0 THEN "raised" ELSE "returned"
    /\ UNCHANGED <<billing_end_date, today, hourly_data, nws_periods,
                   forecast_data, current_date, series, total_hdd, total_ccf,
                   remaining_days, remaining_hdd, remaining_ccf, temps_in,
                   hdd_out, meter_latest, usageVars, wnaVars, call,
                   serviceVars>>

NextBill ==
    \/ EstimateBill
    \/ CallCalculateBill

SpecBill == InitBill /\ [][NextBill]_vars

-----------------------------------------------------------------------------
(* Back-calculating NDD from a bill (src/calculate_oct_bill.py,
   src/calculate_nov_bill.py) *)

\* NDD = ADD + WNAF * (BL + HSF * ADD) / (R * HSF)
back_calculate_ndd_no_base_load(r, hsf, bl, w, add) ==
    FAdd(add, FQuot(FMul(w, FMul(hsf, add)), FMul(r, hsf)))
back_calculate_ndd(r, hsf, bl, w, add) ==
    FAdd(add, FQuot(FMul(w, FAdd(bl, FMul(hsf, add))), FMul(r, hsf)))

\* the October script: the implied factor from the bill's distribution
\* rate, the back-calculated NDD (ADD itself when R * HSF is 0), and the
\* model run on it
calculate_oct_bill(r, hsf, bl, add, bill_dist_rate, base_rate_ccf) ==
    LET implied_wna_per_ccf == FSub(bill_dist_rate, base_rate_ccf)
        implied_wnaf_mcf == FMul(implied_wna_per_ccf, Whole(10))
        calculated_ndd == IF FMul(r, hsf) # Whole(0)
                          THEN back_calculate_ndd(r, hsf, bl, implied_wnaf_mcf, add)
                          ELSE add
        w == WnafInlineOct(r, hsf, bl, calculated_ndd, add)
    IN  [raised |-> w.raised,
         implied_wnaf_mcf |-> implied_wnaf_mcf,
         calculated_ndd |-> calculated_ndd,
         wnaf |-> w.value,
         effective_rate |-> FQuot(FAdd(r, w.value), Whole(10))]

\* the November script: the same back-calculation, the division by R * HSF
\* unguarded, and no model run after it
calculate_nov_bill(r, hsf, bl, add, bill_dist_rate, base_rate_ccf) ==
    LET implied_wna_per_ccf == FSub(bill_dist_rate, base_rate_ccf)
        implied_wnaf_mcf == FMul(implied_wna_per_ccf, Whole(10))
    IN  IF FMul(r, hsf) = Whole(0)
        THEN [raised |-> TRUE, implied_wnaf_mcf |-> implied_wnaf_mcf,
              calculated_ndd |-> add]
        ELSE [raised |-> FALSE, implied_wnaf_mcf |-> implied_wnaf_mcf,
              calculated_ndd |-> back_calculate_ndd(r, hsf, bl, implied_wnaf_mcf, add)]

\* tariffs, the filed one and small ones (some with R * HSF = 0, some with
\* BL + HSF * ADD = 0), actual HDD, and the bill's distribution rate as so
\* much above or below the base rate R / 10
BackCalcTariffs ==
    {Tariff(r, hsf, bl) : r \in {Whole(0), Whole(2)},
                          hsf \in {Whole(0), <<1, 2>>, <<-1, 100>>},
                          bl \in {Whole(0), Whole(1), Whole(6)}}
BackCalcHdds == {Whole(0), <<421, 2>>, Whole(600)}
RateOffsets == {Frac(-159, 25000), Whole(0), Frac(1, 100)}
\* the October bill's rate, 0.15625 against the base rate 0.16261
FiledRateOffsets == {Frac(-159, 25000), Whole(0)}
BackCalcCall(fn, t, add, off) ==
    [fn |-> fn, R |-> t.R, HSF |-> t.HSF, BL |-> t.BL, ADD |-> add,
     base_rate_ccf |-> FQuot(t.R, Whole(10)),
     bill_dist_rate |-> FAdd(FQuot(t.R, Whole(10)), off)]
BackCalcScripts == {"calculate_oct_bill", "calculate_nov_bill"}
BackCalcCalls ==
    {BackCalcCall(fn, t, add, off) :
        fn \in BackCalcScripts, t \in BackCalcTariffs, add \in BackCalcHdds,
        off \in RateOffsets}
    \cup
    {BackCalcCall(fn, Tariff(R, HSF, BL), add, off) :
        fn \in BackCalcScripts, add \in BackCalcHdds, off \in FiledRateOffsets}

InitBackCalc ==
    /\ ScriptIdle
    /\ ServiceIdle
    /\ pc = "call"
    /\ call \in BackCalcCalls
    /\ result = <<>>

BackCalcOct ==
    Inline("calculate_oct_bill",
           calculate_oct_bill(call.R, call.HSF, call.BL, call.ADD,
                              call.bill_dist_rate, call.base_rate_ccf))
BackCalcNov ==
    Inline("calculate_nov_bill",
           calculate_nov_bill(call.R, call.HSF, call.BL, call.ADD,
                              call.bill_dist_rate, call.base_rate_ccf))

NextBackCalc ==
    \/ BackCalcOct
    \/ BackCalcNov

SpecBackCalc == InitBackCalc /\ [][NextBackCalc]_vars

-----------------------------------------------------------------------------
(* The meter log (src/log_meter.py) and the estimator's read of it
   (get_meter_readings of src/estimate_jan_bill.py).  Every run is a
   process of its own; each access opens its own connection, and a
   statement that raises ends the run where it stands. *)

\* how many runs of log_meter.py overlap
MaxLoggers == 2

\* the readings given on the command line
LoggedReadings == {0, 1410}

\* a row of gas_meter_readings; id and recorded_at come from the database
MeterRow(n, reading, ccf) ==
    [id |-> n, meter_reading |-> reading, ccf_since_last |-> ccf,
     recorded_at |-> n]

\* the tables the runs start from
StoredTables == {<<>>, <<MeterRow(1, 1400, None)>>}

MeterProcs ==
    ({"log_reading"} \X (1..MaxLoggers)) \cup {<<"get_meter_readings", 1>>}

\* ORDER BY recorded_at DESC LIMIT 1, fetchone()
LatestRow(table) ==
    IF table = <<>> THEN None
    ELSE Some(CHOOSE r \in {table[i] : i \in 1..Len(table)} :
                  \A i \in 1..Len(table) : table[i].recorded_at <= r.recorded_at)

\* get_last_reading: result[0] if result else None
get_last_reading(table) ==
    IF LatestRow(table) # None THEN Some(LatestRow(table)[1].meter_reading)
    ELSE None

\* reading - last if last else None
ccf_since_last(reading, last) ==
    IF Truthy(last) THEN Some(reading - last[1]) ELSE None

meterUnchanged ==
    <<billing_end_date, today, hourly_data, nws_periods, forecast_data, pc,
      current_date, series, total_hdd, total_ccf, remaining_days,
      remaining_hdd, remaining_ccf, temps_in, hdd_out, laterVars,
      last_collection, thermostat_readings>>

\* the first statement of an access: psycopg2.connect opens connection k of
\* process p, or raises
Connect(p, from, k, to) ==
    /\ pc = "processes"
    /\ procs[p].pc = from
    /\ \/ /\ connections' = connections \cup {<<p, k>>}
          /\ procs' = [procs EXCEPT ![p].pc = to]
       \/ /\ procs' = [procs EXCEPT ![p].pc = "raised"]
          /\ UNCHANGED connections

\* a statement on connection k raises: the run ends, nothing closes k
Raise(p, from) ==
    /\ pc = "processes"
    /\ procs[p].pc = from
    /\ procs' = [procs EXCEPT ![p].pc = "raised"]
    /\ UNCHANGED connections

\* get_last_reading, connect
LastConnect(p) ==
    /\ p[1] = "log_reading"
    /\ Connect(p, "start", 1, "last_query")
    /\ UNCHANGED gas_meter_readings
    /\ UNCHANGED meterUnchanged

\* get_last_reading from execute to return, and line 32 of log_reading
LastQuery(p) ==
    /\ p[1] = "log_reading"
    /\ \/ /\ pc = "processes"
          /\ procs[p].pc = "last_query"
          /\ LET last == get_last_reading(gas_meter_readings) IN
             procs' = [procs EXCEPT ![p].pc = "insert_connect",
                                    ![p].last = last,
                                    ![p].ccf_since_last =
                                        ccf_since_last(procs[p].reading, last)]
          /\ connections' = connections \ {<<p, 1>>}
       \/ Raise(p, "last_query")
    /\ UNCHANGED gas_meter_readings
    /\ UNCHANGED meterUnchanged

\* log_reading, connect
InsertConnect(p) ==
    /\ p[1] = "log_reading"
    /\ Connect(p, "insert_connect", 2, "insert")
    /\ UNCHANGED gas_meter_readings
    /\ UNCHANGED meterUnchanged

\* log_reading from the INSERT to return
InsertRow(p) ==
    /\ p[1] = "log_reading"
    /\ \/ /\ pc = "processes"
          /\ procs[p].pc = "insert"
          /\ LET row == MeterRow(Len(gas_meter_readings) + 1, procs[p].reading,
                                 procs[p].ccf_since_last) IN
             /\ gas_meter_readings' = Append(gas_meter_readings, row)
             /\ procs' = [procs EXCEPT ![p].pc = "returned",
                                       ![p].returned = Some(row.id)]
          /\ connections' = connections \ {<<p, 2>>}
       \/ Raise(p, "insert") /\ UNCHANGED gas_meter_readings
    /\ UNCHANGED meterUnchanged

\* get_meter_readings, connect
MeterConnect(p) ==
    /\ p[1] = "get_meter_readings"
    /\ Connect(p, "start", 1, "query")
    /\ UNCHANGED gas_meter_readings
    /\ UNCHANGED meterUnchanged

\* get_meter_readings from execute to return
MeterQuery(p) ==
    /\ p[1] = "get_meter_readings"
    /\ \/ /\ pc = "processes"
          /\ procs[p].pc = "query"
          /\ procs' = [procs EXCEPT ![p].pc = "returned",
                                    ![p].returned = LatestRow(gas_meter_readings)]
          /\ connections' = connections \ {<<p, 1>>}
       \/ Raise(p, "query")
    /\ UNCHANGED gas_meter_readings
    /\ UNCHANGED meterUnchanged

MeterLocals(reading) ==
    [pc |-> "start", reading |-> reading, last |-> None,
     ccf_since_last |-> None, returned |-> None]

InitMeter ==
    /\ ScriptIdle
    /\ NoCall
    /\ pc = "processes"
    /\ last_collection = NotRun
    /\ thermostat_readings = <<>>
    /\ gas_meter_readings \in StoredTables
    /\ connections = {}
    /\ \E readings \in [({"log_reading"} \X (1..MaxLoggers)) -> LoggedReadings] :
          procs = [p \in MeterProcs |->
                      IF p[1] = "log_reading" THEN MeterLocals(readings[p])
                      ELSE MeterLocals(0)]

NextMeter ==
    \/ \E p \in MeterProcs : LastConnect(p)
    \/ \E p \in MeterProcs : LastQuery(p)
    \/ \E p \in MeterProcs : InsertConnect(p)
    \/ \E p \in MeterProcs : InsertRow(p)
    \/ \E p \in MeterProcs : MeterConnect(p)
    \/ \E p \in MeterProcs : MeterQuery(p)

SpecMeter == InitMeter /\ [][NextMeter]_vars

-----------------------------------------------------------------------------
(* The collector service (src/app.py) and the standalone collector
   (src/thermostat_collector.py).  The scheduler thread and the /collect
   handler run collect_data, /status and / read last_collection, and the
   standalone script saves to the same table. *)

\* how many scheduled runs the scheduler thread makes
MaxRuns == 1

DOWNSTAIRS_SETPOINT == 65
HEAT_RISE_FACTOR == <<3, 10>>
\* the OutdoorTemperature the thermostat reports when it has no reading
NoOutdoorReading == 128

Scheduler == <<"scheduler", 1>>
ManualCollect == <<"manual_collect", 1>>
Status == <<"status", 1>>
Main == <<"main", 1>>
\* the threads that run app.collect_data
Collectors == {Scheduler, ManualCollect}
ServiceProcs == Collectors \cup {Status, Main}

\* zone_info of the first zone
ZoneInfo(disp, outdoor, equip) ==
    [DispTemp |-> disp, OutdoorTemperature |-> outdoor,
     EquipmentOutputStatus |-> equip]

\* what get_all_zones() returns: no zone, or one
ZoneReports ==
    {<<>>, <<ZoneInfo(68, NoOutdoorReading, 1)>>, <<ZoneInfo(68, 30, 1)>>,
     <<ZoneInfo(72, 70, 0)>>}

\* get_thermostat_data(), the same in both collectors
get_thermostat_data(zones) ==
    IF zones = <<>>
    THEN [raised |-> TRUE, exc |-> Some("No zones found"), data |-> None]
    ELSE LET info == zones[1]
             equip_status == info.EquipmentOutputStatus
             outdoor_temp ==
                 IF info.OutdoorTemperature # NoOutdoorReading
                 THEN Some(info.OutdoorTemperature) ELSE None
             adjusted_outdoor ==
                 IF outdoor_temp # None
                 THEN IF outdoor_temp[1] < DOWNSTAIRS_SETPOINT
                      THEN Some(FAdd(Whole(outdoor_temp[1]),
                                     FMul(HEAT_RISE_FACTOR,
                                          Whole(DOWNSTAIRS_SETPOINT
                                                  - outdoor_temp[1]))))
                      ELSE Some(Whole(outdoor_temp[1]))
                 ELSE None
         IN  [raised |-> FALSE, exc |-> None,
              data |-> Some([indoor_temp |-> info.DispTemp,
                             outdoor_temp |-> outdoor_temp,
                             adjusted_outdoor_temp |-> adjusted_outdoor,
                             is_heating |-> equip_status = 1,
                             is_cooling |-> equip_status = 2])]

\* `except Exception` of collect_data: every exception of the run is one
Catches_database_errors_only(e) == e = "OperationalError"
Catches(e) == e \in {"No zones found", "OperationalError", "TypeError"}

\* the dict collect_data assigns after save_to_db returned
SuccessCollection(now, record_id, data) ==
    [time |-> Some(now), status |-> "success", error |-> None,
     data |-> Some([record_id |-> record_id,
                    indoor_temp |-> data.indoor_temp,
                    outdoor_temp |-> data.outdoor_temp,
                    is_heating |-> data.is_heating])]

\* the dict collect_data assigns in its except clause
ErrorCollection_keeps_data(now, e) ==
    [time |-> Some(now), status |-> "error", error |-> Some(e),
     data |-> last_collection.data]
ErrorCollection(now, e) ==
    [time |-> Some(now), status |-> "error", error |-> Some(e),
     data |-> None]

\* datetime.now() in a run: the moment is named by the run
Now(p) == <<p[1], procs[p].runs>>

\* a row of thermostat_readings; the id comes from the database
ThermostatRow(n, data) ==
    [id |-> n, indoor_temp |-> data.indoor_temp,
     outdoor_temp |-> data.outdoor_temp,
     adjusted_outdoor_temp |-> data.adjusted_outdoor_temp,
     is_heating |-> data.is_heating, is_cooling |-> data.is_cooling]

ServiceLocals ==
    [pc |-> "idle", runs |-> 0, data |-> None,
     record_id |-> None, exc |-> None, wrote |-> <<>>, seen |-> None]

\* an exception e in a run of p: main prints and re-raises it, collect_data
\* handles it in its except clause
Fail(p, e) ==
    [procs EXCEPT ![p].exc = Some(e),
                  ![p].pc = IF p = Main THEN "raised"
                            ELSE IF Catches(e) THEN "except"
                            ELSE "propagated"]

collectorUnchanged ==
    <<billing_end_date, today, hourly_data, nws_periods, forecast_data, pc,
      current_date, series, total_hdd, total_ccf, remaining_days,
      remaining_hdd, remaining_ccf, temps_in, hdd_out, laterVars,
      gas_meter_readings>>

\* the runs a process makes
RunsOf(p) == IF p = Scheduler THEN MaxRuns ELSE 1

\* the scheduler fires, a /collect request arrives, the script is started
StartRun(p) ==
    /\ p \in Collectors \cup {Main}
    /\ procs[p].pc \in {"idle", "done"}
    /\ procs[p].runs < RunsOf(p)
    /\ procs' = [procs EXCEPT ![p].pc = "fetch",
                              ![p].runs = @ + 1,
                              ![p].data = None,
                              ![p].record_id = None,
                              ![p].exc = None]
    /\ UNCHANGED <<last_collection, thermostat_readings, connections>>
    /\ UNCHANGED collectorUnchanged

\* data = get_thermostat_data()
Fetch(p) ==
    /\ procs[p].pc = "fetch"
    /\ \E zones \in ZoneReports :
          LET got == get_thermostat_data(zones) IN
          IF got.raised
          THEN procs' = Fail(p, got.exc[1])
          ELSE procs' = [procs EXCEPT ![p].data = got.data,
                                      ![p].pc = IF p = Main THEN "report"
                                                ELSE "connect"]
    /\ UNCHANGED <<last_collection, thermostat_readings, connections>>
    /\ UNCHANGED collectorUnchanged

\* thermostat_collector.main prints the data before it saves them;
\* {None:.1f} raises TypeError
Report(p) ==
    /\ p = Main
    /\ procs[p].pc = "report"
    /\ procs' = IF procs[p].data[1].adjusted_outdoor_temp = None
                THEN Fail(p, "TypeError")
                ELSE [procs EXCEPT ![p].pc = "connect"]
    /\ UNCHANGED <<last_collection, thermostat_readings, connections>>
    /\ UNCHANGED collectorUnchanged

\* save_to_db, connect
SaveConnect(p) ==
    /\ procs[p].pc = "connect"
    /\ \/ /\ connections' = connections \cup {<<p, procs[p].runs>>}
          /\ procs' = [procs EXCEPT ![p].pc = "insert"]
       \/ /\ procs' = Fail(p, "OperationalError")
          /\ UNCHANGED connections
    /\ UNCHANGED <<last_collection, thermostat_readings>>
    /\ UNCHANGED collectorUnchanged

\* save_to_db from the INSERT to return
SaveInsert(p) ==
    /\ procs[p].pc = "insert"
    /\ \/ /\ LET row == ThermostatRow(Len(thermostat_readings) + 1,
                                      procs[p].data[1]) IN
             /\ thermostat_readings' = Append(thermostat_readings, row)
             /\ procs' = [procs EXCEPT ![p].record_id = Some(row.id),
                                       ![p].pc = IF p = Main THEN "returned"
                                                 ELSE "assign"]
          /\ connections' = connections \ {<<p, procs[p].runs>>}
       \/ /\ procs' = Fail(p, "OperationalError")
          /\ UNCHANGED <<thermostat_readings, connections>>
    /\ UNCHANGED last_collection
    /\ UNCHANGED collectorUnchanged

\* collect_data, lines 132-142
AssignSuccess(p) ==
    /\ procs[p].pc = "assign"
    /\ last_collection' = SuccessCollection(Now(p), procs[p].record_id[1],
                                            procs[p].data[1])
    /\ procs' = [procs EXCEPT ![p].pc = "done",
                              ![p].wrote = Append(@, last_collection')]
    /\ UNCHANGED <<thermostat_readings, connections>>
    /\ UNCHANGED collectorUnchanged

\* collect_data, lines 145-151
AssignError(p) ==
    /\ procs[p].pc = "except"
    /\ last_collection' = ErrorCollection(Now(p), procs[p].exc[1])
    /\ procs' = [procs EXCEPT ![p].pc = "done",
                              ![p].wrote = Append(@, last_collection')]
    /\ UNCHANGED <<thermostat_readings, connections>>
    /\ UNCHANGED collectorUnchanged

\* manual_collect after collect_data returned: jsonify(last_collection)
Respond(p) ==
    /\ p = ManualCollect
    /\ procs[p].pc = "done"
    /\ procs' = [procs EXCEPT ![p].pc = "responded",
                              ![p].seen = Some(last_collection)]
    /\ UNCHANGED <<last_collection, thermostat_readings, connections>>
    /\ UNCHANGED collectorUnchanged

\* /status and /: jsonify(last_collection)
ReadStatus(p) ==
    /\ p = Status
    /\ procs' = [procs EXCEPT ![p].seen = Some(last_collection)]
    /\ UNCHANGED <<last_collection, thermostat_readings, connections>>
    /\ UNCHANGED collectorUnchanged

InitCollector ==
    /\ ScriptIdle
    /\ NoCall
    /\ pc = "processes"
    /\ last_collection = NotRun
    /\ thermostat_readings = <<>>
    /\ gas_meter_readings = <<>>
    /\ connections = {}
    /\ procs = [p \in ServiceProcs |-> ServiceLocals]

NextCollector ==
    \/ \E p \in ServiceProcs : StartRun(p)
    \/ \E p \in ServiceProcs : Fetch(p)
    \/ \E p \in ServiceProcs : Report(p)
    \/ \E p \in ServiceProcs : SaveConnect(p)
    \/ \E p \in ServiceProcs : SaveInsert(p)
    \/ \E p \in ServiceProcs : AssignSuccess(p)
    \/ \E p \in ServiceProcs : AssignError(p)
    \/ \E p \in ServiceProcs : Respond(p)
    \/ \E p \in ServiceProcs : ReadStatus(p)

SpecCollector == InitCollector /\ [][NextCollector]_vars

-----------------------------------------------------------------------------
(* The December estimate (src/estimate_dec_bill.py), run twice on the same
   weather with different future days *)

\* `for date, (high, low) in weather.items(): actual_hdd += max(0, 65 - avg)`
RECURSIVE SumHdd(_)
SumHdd(weather) ==
    IF weather = <<>> THEN Whole(0)
    ELSE FAdd(SumHdd(SubSeq(weather, 1, Len(weather) - 1)),
              HddHighLow(weather[Len(weather)][1], weather[Len(weather)][2]))

\* the script from its tables to its WNA factor
estimate_dec_bill_whole_cycle(weather_actual, weather_estimated, future_days, jan_normal_daily_hdd) ==
    LET actual_hdd == FAdd(SumHdd(weather_actual), SumHdd(weather_estimated))
        future_hdd == future_days * jan_normal_daily_hdd
        total_days == Len(weather_actual) + Len(weather_estimated) + future_days
        estimated_ndd == total_days * estimated_ndd_daily
        actual_days == Len(weather_actual) + Len(weather_estimated)
        actual_period_ndd == actual_days * estimated_ndd_daily
        add == FAdd(actual_hdd, Whole(future_hdd))
        ndd == Whole(estimated_ndd)
    IN  [actual_hdd |-> actual_hdd, future_hdd |-> future_hdd,
         total_days |-> total_days, estimated_ndd |-> estimated_ndd,
         actual_days |-> actual_days, ADD |-> add, NDD |-> ndd,
         wnaf |-> WnafInlineDec(R, HSF, BL, ndd, add).value]
estimate_dec_bill(weather_actual, weather_estimated, future_days, jan_normal_daily_hdd) ==
    LET actual_hdd == FAdd(SumHdd(weather_actual), SumHdd(weather_estimated))
        future_hdd == future_days * jan_normal_daily_hdd
        total_days == Len(weather_actual) + Len(weather_estimated) + future_days
        estimated_ndd == total_days * estimated_ndd_daily
        actual_days == Len(weather_actual) + Len(weather_estimated)
        actual_period_ndd == actual_days * estimated_ndd_daily
        add == actual_hdd
        ndd == Whole(actual_period_ndd)
    IN  [actual_hdd |-> actual_hdd, future_hdd |-> future_hdd,
         total_days |-> total_days, estimated_ndd |-> estimated_ndd,
         actual_days |-> actual_days, ADD |-> add, NDD |-> ndd,
         wnaf |-> WnafInlineDec(R, HSF, BL, ndd, add).value]

\* (high, low) of a day of the tables
DecDayChoices == {<<48, 34>>, <<70, 61>>, <<41, 30>>, <<55, 48>>}
SeqsUpTo(S, n) == UNION {[1..k -> S] : k \in 0..n}
\* len(future_days), and the HDD assumed for each of them
FutureCounts == {0, 2}
AssumedHdds == {0, 20, 25}

InitDec ==
    /\ ScriptIdle
    /\ ServiceIdle
    /\ pc = "first_run"
    /\ \E wa \in SeqsUpTo(DecDayChoices, MaxActualDays),
          we \in SeqsUpTo(DecDayChoices, MaxEstimatedDays),
          f1 \in FutureCounts, f2 \in FutureCounts,
          h1 \in AssumedHdds, h2 \in AssumedHdds :
            call = [weather_actual |-> wa, weather_estimated |-> we,
                    future_days |-> <<f1, f2>>,
                    jan_normal_daily_hdd |-> <<h1, h2>>]
    /\ result = <<>>

\* run i of the script
RunDec(i) ==
    /\ result' = Append(result,
                        estimate_dec_bill(call.weather_actual,
                                          call.weather_estimated,
                                          call.future_days[i],
                                          call.jan_normal_daily_hdd[i]))
    /\ UNCHANGED <<billing_end_date, today, hourly_data, nws_periods,
                   forecast_data, current_date, series, total_hdd, total_ccf,
                   remaining_days, remaining_hdd, remaining_ccf, temps_in,
                   hdd_out, meter_latest, usageVars, wnaVars, call,
                   serviceVars>>
FirstRun ==
    /\ pc = "first_run"
    /\ RunDec(1)
    /\ pc' = "second_run"
SecondRun ==
    /\ pc = "second_run"
    /\ RunDec(2)
    /\ pc' = "both_run"

NextDec ==
    \/ FirstRun
    \/ SecondRun

SpecDec == InitDec /\ [][NextDec]_vars

-----------------------------------------------------------------------------
(* Vocabulary of the claims *)

Rows == {series[i] : i \in DOMAIN series}
ValidCycle == billing_start_date <= billing_end_date
\* the resolver loop has run to its end
Resolved == pc \in {"remaining", "usage", "wna", "bill"}
\* both loops have run to their end
LoopsDone == pc \in {"usage", "wna", "bill"}
\* the usage section has run, and the WNA section has
UsageDone == pc \in {"wna", "bill"}
WnaDone == pc = "bill"
\* the days of the cycle on or after the as-of date
RemainingCycleDays == {d \in CycleDays : d >= today}
RemainingSet == {remaining_days[i] : i \in DOMAIN remaining_days}
ElapsedSet == {r.date : r \in {x \in Rows : x.date < today}}
\* the periods the forecast service sent for day d
DayTemps(d) == {p.temperature : p \in {nws_periods[i] : i \in
                    {j \in DOMAIN nws_periods : nws_periods[j].start_date = d
                                              /\ nws_periods[j].isDaytime}}}
NightTemps(d) == {p.temperature : p \in {nws_periods[i] : i \in
                    {j \in DOMAIN nws_periods : nws_periods[j].start_date = d
                                              /\ ~nws_periods[j].isDaytime}}}
\* the row of day d came out of the forecast branch of the resolver
FromForecast(d) ==
    /\ ~(d < today /\ HasKey(hourly_data, DateStr(d)))
    /\ HasKey(forecast_data, DateStr(d))
\* the mean of the samples, and 65 minus it clamped at 0
Mean(temps) == Frac(SeqSum(temps), Len(temps))
ClampedMeanHdd(temps) ==
    IF FLe(Whole(BaseTemp), Mean(temps)) THEN Whole(0)
    ELSE FSub(Whole(BaseTemp), Mean(temps))

-----------------------------------------------------------------------------
(* C1 *)

\* C1: the resolver loop yields exactly one row per calendar day of
\* [start, end], in ascending date order, none skipped or repeated, and no
\* row has a missing (None) hdd; the loop never raises.
C1_OneRowPerDay ==
    /\ pc # "raised"
    /\ \A i \in DOMAIN series :
          /\ series[i].date = billing_start_date + i - 1
          /\ series[i].date \in CycleDays
          /\ series[i].hdd # None
          /\ series[i].source \in {"IEM", "IEM*", "NWS", "Est"}
    /\ (Resolved /\ ValidCycle) =>
          Len(series) = billing_end_date - billing_start_date + 1

C1_Witness ==
    /\ LoopsDone
    /\ Len(series) = MaxSpan + 1
    /\ {r.source : r \in Rows} = {"IEM", "NWS", "Est"}

(* C2 *)

\* C2: when the archive fetch returned None every day before the as-of date
\* is resolved Assumed ('Est', hdd 25), and when the forecast fetch returned
\* None every day on or after it is; the cycle is complete either way.
C2_FailedSourceIsAssumed ==
    (Resolved /\ ValidCycle) =>
        /\ Len(series) = billing_end_date - billing_start_date + 1
        /\ hourly_data.none =>
              \A r \in Rows : r.date < today =>
                  r.source = "Est" /\ r.hdd = Some(Whole(FallbackHdd))
        /\ forecast_data.none =>
              \A r \in Rows : r.date >= today =>
                  r.source = "Est" /\ r.hdd = Some(Whole(FallbackHdd))

(* C3 *)

\* the forecast has no entry for any remaining day of the cycle
NoForecastForRemaining ==
    \A d \in RemainingCycleDays : ~HasKey(forecast_data, DateStr(d))

C4_HistoricalTags ==
    \A r \in Rows :
        LET key == DateStr(r.date) IN
        /\ (r.date < today /\ HasKey(hourly_data, key)) =>
              LET temps == hourly_data.map[key]
                  mid2 == SeqMax(temps) + SeqMin(temps)
              IN  /\ Len(temps) >= 20 =>
                        /\ r.source = "IEM"
                        /\ r.hdd = Some(Frac(DegreeHours(temps), Len(temps)))
                  /\ Len(temps) < 20 =>
                        /\ r.source = "IEM*"
                        /\ r.hdd = Some(IF 2 * 65 - mid2 > 0
                                        THEN Frac(2 * 65 - mid2, 2)
                                        ELSE Whole(0))
        /\ r.source = "IEM" =>
              /\ HasKey(hourly_data, key)
              /\ Len(hourly_data.map[key]) >= 20

C4_Witness ==
    /\ LoopsDone
    /\ \E r \in Rows : r.source = "IEM" /\ Len(hourly_data.map[DateStr(r.date)]) = 20
    /\ \E r \in Rows : r.source = "IEM*" /\ Len(hourly_data.map[DateStr(r.date)]) = 19

(* C5 *)

\* C5: a row is tagged 'NWS' only for a day on or after the as-of date that
\* the forecast covers; a day before the as-of date is never resolved from
\* the forecast.
C5_ForecastOnlyFromAsOf ==
    \A r \in Rows :
        r.source = "NWS" =>
            r.date >= today /\ HasKey(forecast_data, DateStr(r.date))

(* C6 *)

\* the forecast sent a high and no low for day d and the low was filled in
LowSynthesized(d) ==
    /\ DayTemps(d) # {}
    /\ NightTemps(d) = {}
    /\ HasKey(forecast_data, DateStr(d))
    /\ forecast_data.map[DateStr(d)].low # None
\* the forecast sent both a high and a low for day d
TwoSided(d) == DayTemps(d) # {} /\ NightTemps(d) # {}

\* C6: a filled-in low is the high minus 20, and a day resolved from a
\* forecast with a filled-in low carries a tag different from the tag of a
\* day resolved from a forecast that supplied both high and low.
C6_SynthesizedLowTagged ==
    /\ \A d \in FcDays : LowSynthesized(d) =>
          \E h \in DayTemps(d) :
              forecast_data.map[DateStr(d)].low = Some(h - 20)
    /\ \A r1 \in Rows : \A r2 \in Rows :
          ( /\ LowSynthesized(r1.date) /\ FromForecast(r1.date)
            /\ TwoSided(r2.date) /\ FromForecast(r2.date) )
          => r1.source # r2.source

(* C7 *)

\* C7: in every branch of the resolver the hdd given to a day is >= 0, and
\* so are the running totals of the loops and the cycle's ADD (total_ccf is
\* reused for the whole-CCF usage once the usage section has run).
C7_HddNonNegative ==
    /\ \A r \in Rows : r.hdd # None => FLe(Whole(0), r.hdd[1])
    /\ FLe(Whole(0), total_hdd)
    /\ ~UsageDone => FLe(Whole(0), total_ccf)
    /\ FLe(Whole(0), remaining_hdd)
    /\ FLe(Whole(0), ADD)

C7_Witness ==
    /\ LoopsDone
    /\ \E r \in Rows :
          /\ r.source = "NWS"
          /\ r.hdd = Some(Whole(0))
          /\ LET fc == forecast_data.map[DateStr(r.date)]
             IN  fc.high[1] + fc.low[1] > 2 * 65
    /\ \E r \in Rows : r.source = "IEM*" /\ r.hdd = Some(Whole(0))
    /\ \E r \in Rows : r.source = "Est"

(* C8 *)

\* C8 as stated: with at least 20 samples calculate_hourly_hdd returns
\* max(0, 65 - mean(samples)) for every sample list, and with fewer than 20
\* (or none) it returns None.
C8_HourlyIsClampedMean ==
    pc = "returned" =>
        /\ Len(temps_in) >= 20 => hdd_out = Some(ClampedMeanHdd(temps_in))
        /\ Len(temps_in) < 20 => hdd_out = None

\* C8 amended: with at least 20 samples calculate_hourly_hdd returns the mean
\* of the per-sample max(0, 65 - t): that is never below max(0, 65 - mean),
\* equals it when no sample is above 65 or no sample is below 65, and exceeds
\* it when the samples lie on both sides of 65; with fewer than 20 samples
\* (or none) it returns None.
C8_HourlyIsMeanOfClamped ==
    pc = "returned" =>
        LET above == \E i \in DOMAIN temps_in : temps_in[i] > 65
            below == \E i \in DOMAIN temps_in : temps_in[i] < 65
        IN  /\ Len(temps_in) < 20 => hdd_out = None
            /\ Len(temps_in) >= 20 =>
                  /\ hdd_out # None
                  /\ FLe(ClampedMeanHdd(temps_in), hdd_out[1])
                  /\ ~(above /\ below) => hdd_out[1] = ClampedMeanHdd(temps_in)
                  /\ (above /\ below) => FLt(ClampedMeanHdd(temps_in), hdd_out[1])

C8_Witness ==
    /\ pc = "returned"
    /\ Len(temps_in) = 21
    /\ \E i \in DOMAIN temps_in : temps_in[i] > 65
    /\ \E i \in DOMAIN temps_in : temps_in[i] < 65
    /\ hdd_out # None
    /\ hdd_out[1] # ClampedMeanHdd(temps_in)

(* C9 *)

\* C9: once both loops have run, the days the resolver treated as elapsed
\* (day < as-of) and the days the remaining-days loop visited are disjoint,
\* each contiguous, and together exactly [start, end]; the as-of date, when
\* inside the cycle, is a remaining day.
C9_CalendarPartition ==
    (LoopsDone /\ ValidCycle) =>
        /\ ElapsedSet \cap RemainingSet = {}
        /\ ElapsedSet \cup RemainingSet = CycleDays
        /\ \A i \in DOMAIN remaining_days :
              i > 1 => remaining_days[i] = remaining_days[i - 1] + 1
        /\ \A d \in CycleDays : \A e \in ElapsedSet :
              d < e => d \in ElapsedSet
        /\ today \in CycleDays => today \in RemainingSet

(* C10 *)

\* the sum of what the remaining-days loop adds for the days of D
RECURSIVE SumRemainingHdd(_)
SumRemainingHdd(D) ==
    IF D = {} THEN Whole(0)
    ELSE LET d == CHOOSE x \in D : TRUE
         IN  FAdd(RemainingHdd(d), SumRemainingHdd(D \ {d}))

\* C10: the remaining-days set of the usage projection is clipped to the
\* cycle: with the as-of date before start the remaining days are exactly
\* [start, end] and only they contribute to remaining_hdd / remaining_ccf;
\* with the as-of date after end the set is empty and remaining_ccf is 0.
C10_RemainingClipped ==
    (LoopsDone /\ ValidCycle) =>
        /\ RemainingSet \subseteq CycleDays
        /\ today < billing_start_date =>
              /\ RemainingSet = CycleDays
              /\ remaining_hdd = SumRemainingHdd(CycleDays)
              /\ remaining_ccf = FMul(SumRemainingHdd(CycleDays), ccf_per_hdd)
        /\ today > billing_end_date =>
              /\ remaining_days = <<>>
              /\ remaining_ccf = Whole(0)

(* C11 *)

\* C11: when the latest meter reading is lower than the cycle-start reading
\* the estimation stops with InvalidMeterDelta: the usage section yields no
\* usage total, and the negative delta is carried no further.
C11_NegativeDeltaRejected ==
    (pc # "read_meter" /\ meter_latest < meter_dec_11) => ~UsageDone

(* C12 *)

\* C12: the whole-CCF usage is the floor of the exact usage, so the exact
\* usage exceeds it by a part in [0, 1).
C12_UsageRoundedIsFloor ==
    UsageDone =>
        /\ total_ccf_int = Floor(total_ccf_exact)
        /\ FLe(Whole(0), FSub(total_ccf_exact, Whole(total_ccf_int)))
        /\ FLt(FSub(total_ccf_exact, Whole(total_ccf_int)), Whole(1))

(* C13 *)

\* C13: the estimated end-of-cycle reading is the range [start + rounded,
\* start + rounded + 1): the high end is one above the low end and the
\* start reading plus the exact usage lies in the range.
C13_MeterRange ==
    UsageDone =>
        /\ estimated_meter_low = meter_dec_11 + total_ccf_int
        /\ estimated_meter_high = estimated_meter_low + 1
        /\ FLe(Whole(estimated_meter_low),
               FAdd(Whole(meter_dec_11), total_ccf_exact))
        /\ FLt(FAdd(Whole(meter_dec_11), total_ccf_exact),
               Whole(estimated_meter_high))

(* C14 .. C17: the WNA factor *)

\* a call has returned
Returned(fns) == pc = "returned" /\ call.fn \in fns
LibraryFactors == {"calculate_wna_factor_mcf", "calculate_wna_factor_ccf"}
\* the denominator BL + HSF * ADD of the call
Denominator == FAdd(call.BL, FMul(call.HSF, call.ADD))
\* a tariff of positive rates, and degree days that are not negative
PositiveInputs ==
    /\ FLt(Whole(0), call.R)
    /\ FLt(Whole(0), call.HSF)
    /\ FLt(Whole(0), call.BL)
    /\ FLe(Whole(0), call.NDD)
    /\ FLe(Whole(0), call.ADD)
FAbs(x) == <<Abs(x[1]), x[2]>>

\* C14: with NDD = ADD the factor functions return exactly 0 for any R, HSF
\* and BL, a zero denominator included, and calculate_bill returns a WNA
\* amount of exactly 0 at any usage.
C14_NoAdjustmentIdentity ==
    /\ (Returned(LibraryFactors) /\ call.NDD = call.ADD) =>
          result.value = Whole(0)
    /\ (Returned({"calculate_bill"}) /\ call.NDD = call.ADD) =>
          /\ result.wna_amount = Whole(0)
          /\ result.wnaf_per_mcf = Whole(0)

C14_Witness ==
    /\ Returned({"calculate_wna_factor_mcf"})
    /\ call.NDD = call.ADD
    /\ call.R # Whole(0)
    /\ call.HSF # Whole(0)
    /\ call.NDD # Whole(0)
    /\ Denominator = Whole(0)
    /\ result.value = Whole(0)

\* C15: for positive R, HSF, BL and NDD, ADD >= 0 the factor is <= 0 when
\* ADD > NDD and >= 0 when ADD < NDD; with positive usage the WNA amount has
\* the sign of the factor, and the script's CREDIT / SURCHARGE wording
\* agrees with it.
C15_SignLaw ==
    /\ (Returned(FactorFunctions) /\ PositiveInputs) =>
          /\ FLt(call.NDD, call.ADD) =>
                /\ FLe(result.value, Whole(0))
                /\ FLe(FMul(call.usage_mcf, result.value), Whole(0))
          /\ FLt(call.ADD, call.NDD) =>
                /\ FLe(Whole(0), result.value)
                /\ FLe(Whole(0), FMul(call.usage_mcf, result.value))
          /\ call.fn = "estimate_jan_bill" =>
                IF WnaLabel(call.NDD, call.ADD) = "SURCHARGE"
                THEN FLe(Whole(0), result.value)
                ELSE FLe(result.value, Whole(0))
    /\ (Returned({"calculate_bill"}) /\ call.winter_month
            /\ FLt(Whole(0), call.usage_mcf)) =>
          /\ FLt(call.NDD, call.ADD) =>
                /\ FLe(result.wna_amount, Whole(0))
                /\ result.wna_effect = "CREDIT (bill reduced)"
          /\ FLt(call.ADD, call.NDD) =>
                /\ FLe(Whole(0), result.wna_amount)
                /\ result.wna_effect = "SURCHARGE (bill increased)"

C15_Witness ==
    /\ Returned({"calculate_wna_factor_mcf"})
    /\ PositiveInputs
    /\ call.R = R
    /\ FLt(call.NDD, call.ADD)
    /\ FLt(result.value, Whole(0))

C17_ScenarioSymmetric ==
    /\ (Returned({"calculate_bill"}) /\ call.winter_month
            /\ call.usage_mcf = Whole(5) /\ call.NDD = Whole(600)) =>
          /\ call.ADD = Whole(750) =>
                /\ Round(result.wnaf_per_mcf, 4) = Frac(-12645, 10000)
                /\ result.wna_amount = Frac(-632, 100)
          /\ call.ADD = Whole(450) =>
                /\ Round(result.wnaf_per_mcf, 4) = Frac(12645, 10000)
                /\ result.wna_amount = Frac(632, 100)
    /\ (Returned({"calculate_wna_factor_mcf"}) /\ PositiveInputs
            /\ FLe(call.ADD, FAdd(call.NDD, call.NDD))) =>
          FAbs(result.value)
            = FAbs(calculate_wna_factor_mcf(call.R, call.HSF, call.BL, call.NDD,
                       FSub(FAdd(call.NDD, call.NDD), call.ADD)))

\* C17: with the filed tariff, NDD = 600 and usage 5.0, ADD = 750 gives a
\* factor of -0.292486 and an amount of -1.46, ADD = 450 gives +0.456823
\* and +2.28; for positive rates the factor for ADD = NDD + d is smaller in
\* magnitude than the one for ADD = NDD - d, the denominator BL + HSF * ADD
\* growing with ADD.
C17_ScenarioValues ==
    /\ (Returned({"calculate_bill"}) /\ call.winter_month
            /\ call.usage_mcf = Whole(5) /\ call.NDD = Whole(600)) =>
          /\ call.ADD = Whole(750) =>
                /\ result.wnaf_per_mcf = Frac(-292486, 1000000)
                /\ result.wna_amount = Frac(-146, 100)
          /\ call.ADD = Whole(450) =>
                /\ result.wnaf_per_mcf = Frac(456823, 1000000)
                /\ result.wna_amount = Frac(228, 100)
    /\ (Returned({"calculate_wna_factor_mcf"}) /\ PositiveInputs
            /\ FLt(call.NDD, call.ADD)
            /\ FLe(call.ADD, FAdd(call.NDD, call.NDD))) =>
          FLt(FAbs(result.value),
              FAbs(calculate_wna_factor_mcf(call.R, call.HSF, call.BL, call.NDD,
                       FSub(FAdd(call.NDD, call.NDD), call.ADD))))

C17_Witness ==
    /\ Returned({"calculate_bill"})
    /\ call.winter_month
    /\ call.usage_mcf = Whole(5)
    /\ call.NDD = Whole(600)
    /\ call.ADD = Whole(750)
    /\ result.wna_effect = "CREDIT (bill reduced)"

(* C20 *)

C18_ElapsedOnlyFactor ==
    pc = "both_run" =>
        /\ result[1].wnaf = result[2].wnaf
        /\ \A i \in 1..2 :
              /\ result[i].ADD = FAdd(SumHdd(call.weather_actual),
                                      SumHdd(call.weather_estimated))
              /\ result[i].NDD = Whole(estimated_ndd_daily *
                     (Len(call.weather_actual) + Len(call.weather_estimated)))

C18_Witness ==
    /\ pc = "both_run"
    /\ call.future_days[1] # call.future_days[2]
    /\ call.jan_normal_daily_hdd[1] # call.jan_normal_daily_hdd[2]
    /\ result[1].future_hdd # result[2].future_hdd
    /\ result[1].wnaf # Whole(0)
    /\ result[1].wnaf = result[2].wnaf

(* C19 *)

\* C19: the bill total is the sum of the line items in their fixed order
\* (customer or base charge, distribution, WNA, riders, gas cost, fees),
\* added up unrounded; what is reported is that sum rounded to cents, not
\* the sum of the rounded items.
C19_TotalIsSumOfItems ==
    /\ (pc # "call" /\ call.fn = "bill_estimate") =>
          LET usage_mcf == Frac(call.usage_ccf, 10) IN
          /\ result.items =
                <<Whole(25), FMul(usage_mcf, R), FMul(usage_mcf, call.wnaf),
                  FMul(usage_mcf, PRP),
                  FMul(Whole(call.usage_ccf), gas_cost_rate),
                  FMul(Whole(call.usage_ccf), Frac(3, 100)),
                  FMul(Whole(call.usage_ccf), Frac(1, 100))>>
          /\ result.total_bill = FSum(result.items)
          /\ result.printed_total = Round(FSum(result.items), 2)
    /\ (pc # "call" /\ call.fn = "calculate_bill") =>
          /\ Len(result.items) = 4
          /\ result.items[1] = Whole(25)
          /\ result.items[2] = FMul(call.usage_mcf, R)
          /\ result.items[4] = FMul(call.usage_mcf, PRP)
          /\ result.wna_amount = Round(result.items[3], 2)
          /\ result.exact = FSum(result.items)
          /\ result.total_distribution = Round(FSum(result.items), 2)

C19_Witness ==
    /\ pc = "returned"
    /\ call.fn = "bill_estimate"
    /\ call.usage_ccf > 0
    /\ call.wnaf # Whole(0)
    /\ result.printed_total # Round(FSum(result.printed), 2)

(* C23 *)

\* the sum of the hdd of the rows of the days of D
RECURSIVE SumRowHdd(_)
SumRowHdd(D) ==
    IF D = {} THEN Whole(0)
    ELSE LET d == CHOOSE x \in D : TRUE
             r == CHOOSE x \in Rows : x.date = d
         IN  FAdd(r.hdd[1], SumRowHdd(D \ {d}))

\* C23: with the as-of date inside the cycle, the remaining-days HDD sum of
\* the usage projection equals the sum of the hdd the resolver loop gave to
\* the same days (the cycle days on or after the as-of date), whatever the
\* forecast holds, and remaining_ccf is that sum times 0.12.
C23_RemainingMatchesResolver ==
    (LoopsDone /\ ValidCycle /\ pc # "raised" /\ today >= billing_start_date) =>
        /\ remaining_hdd = SumRowHdd(RemainingCycleDays)
        /\ remaining_ccf = FMul(SumRowHdd(RemainingCycleDays), ccf_per_hdd)

(* C24 *)

\* C24: a day the forecast branch resolves, for which the forecast sent both
\* a daytime and a night temperature, is tagged 'NWS' with
\* hdd = max(0, 65 - (high + low) / 2), a temperature of 0 included.
C24_BothPresentIsForecast ==
    \A r \in Rows :
        (FromForecast(r.date) /\ DayTemps(r.date) # {}
                              /\ NightTemps(r.date) # {}) =>
            /\ r.source = "NWS"
            /\ \E h \in DayTemps(r.date), l \in NightTemps(r.date) :
                  r.hdd = Some(Max0(FSub(Whole(65), Frac(h + l, 2))))

(* C25 *)

\* C25: a cycle in which every day is Assumed has ADD = NDD and a WNA
\* factor of 0: an Assumed day adds to ADD what it adds to NDD.
C25_AssumedIsNeutral ==
    (WnaDone /\ ValidCycle /\ \A r \in Rows : r.source = "Est") =>
        /\ ADD = Whole(NDD)
        /\ wnaf = Whole(0)

(* C30 *)

\* C30: in every result of calculate_bill the wna_effect label agrees with
\* the unrounded WNA amount: CREDIT only when it is negative, SURCHARGE only
\* when it is positive, 'No adjustment' whenever it is 0, in winter months
\* and outside them.
C30_LabelAgreesWithAmount ==
    Returned({"calculate_bill"}) =>
        LET wna_amount == result.items[3] IN
        /\ result.wna_effect = "CREDIT (bill reduced)" =>
              FLt(wna_amount, Whole(0))
        /\ result.wna_effect = "SURCHARGE (bill increased)" =>
              FLt(Whole(0), wna_amount)
        /\ wna_amount = Whole(0) => result.wna_effect = "No adjustment"

(* C22 *)

\* C22: for R * HSF # 0 and BL + HSF * ADD # 0 the factor of the NDD
\* back-calculated from an implied factor w is w again, and the model's
\* distribution rate (R + wnaf) / 10 is the bill's distribution rate.
C22_BackCalcRoundTrip ==
    (pc = "returned" /\ FMul(call.R, call.HSF) # Whole(0)
                     /\ Denominator # Whole(0)) =>
        /\ WnafFormula(call.R, call.HSF, call.BL, result.calculated_ndd, call.ADD)
             = result.implied_wnaf_mcf
        /\ calculate_wna_factor_mcf(call.R, call.HSF, call.BL,
                                    result.calculated_ndd, call.ADD)
             = result.implied_wnaf_mcf
        /\ call.fn = "calculate_oct_bill" =>
              /\ result.wnaf = result.implied_wnaf_mcf
              /\ result.effective_rate = call.bill_dist_rate

C22_Witness ==
    /\ pc = "returned"
    /\ call.fn = "calculate_oct_bill"
    /\ call.R = R
    /\ call.ADD = <<421, 2>>
    /\ result.implied_wnaf_mcf = Frac(-636, 10000)
    /\ FLt(result.calculated_ndd, call.ADD)
    /\ result.effective_rate = Frac(15625, 100000)

(* C21 *)

\* a process whose access has returned or failed
AccessEnded(p) == procs[p].pc \in {"returned", "raised"}

\* C21: every connection a store access opened is closed by the time the
\* access returns or fails, also when its query raises: no connection stays
\* open behind an access that has ended.
C21_NoConnectionLeftOpen ==
    \A c \in connections : ~AccessEnded(c[1])

(* C29 *)

\* C29: in every interleaving of log_reading calls each row's ccf_since_last
\* is its meter_reading minus the meter_reading of the row just before it in
\* recorded_at order, and it is None for the first row only, also when the
\* reading before is 0.
C29_CcfIsDifferenceToPreceding ==
    \A i \in 1..Len(gas_meter_readings) :
        gas_meter_readings[i].ccf_since_last =
            IF i = 1 THEN None
            ELSE Some(gas_meter_readings[i].meter_reading
                        - gas_meter_readings[i - 1].meter_reading)

(* C26 *)

\* the three shapes of last_collection
WellShaped(d) ==
    \/ d = NotRun
    \/ d.status = "success" /\ d.time # None /\ d.error = None /\ d.data # None
    \/ d.status = "error" /\ d.time # None /\ d.error # None /\ d.data = None

\* the dicts the runs of collect_data have assigned so far
Written ==
    {NotRun} \cup UNION {{procs[p].wrote[i] : i \in 1..Len(procs[p].wrote)} :
                            p \in Collectors}

\* C26: under every interleaving of scheduled runs, /collect requests and
\* /status reads, last_collection is 'not run' with nothing set (only while
\* no run has completed), or 'success' with no error and with data, or
\* 'error' with an error and no data; what a reader gets is one whole dict
\* that a run assigned, never fields of two runs.
C26_ThreeShapes ==
    /\ WellShaped(last_collection)
    /\ last_collection \in Written
    /\ last_collection.status = "not run" <=>
          \A p \in Collectors : procs[p].wrote = <<>>
    /\ \A p \in {Status, ManualCollect} :
          procs[p].seen # None =>
              /\ WellShaped(procs[p].seen[1])
              /\ procs[p].seen[1] \in Written
    /\ procs[ManualCollect].seen # None =>
          procs[ManualCollect].seen[1].status # "not run"

\* /status returned the scheduler's success, the overlapping /collect run
\* failed afterwards and returned its own error
C26_Witness ==
    /\ procs[Status].seen # None
    /\ procs[Status].seen[1].status = "success"
    /\ procs[Status].seen[1].time = Some(<<"scheduler", 1>>)
    /\ last_collection.status = "error"
    /\ procs[ManualCollect].pc = "responded"
    /\ procs[ManualCollect].seen = Some(last_collection)
    /\ <<ManualCollect, 1>> \in connections

(* C27 *)

\* a run of collect_data has returned
CollectReturned(p) == procs[p].pc \in {"done", "responded"}
\* the dict that run assigned
AssignedBy(p) == procs[p].wrote[Len(procs[p].wrote)]
\* the table has a row with this id
Saved(n) == \E i \in 1..Len(thermostat_readings) : thermostat_readings[i].id = n

\* C27: no exception leaves collect_data; a run in which
\* get_thermostat_data or save_to_db failed ends with status 'error', a run
\* without a failure with 'success', and 'success' is assigned only with
\* the id of the row save_to_db inserted, whatever the status before was.
C27_FailuresBecomeStatus ==
    /\ \A p \in Collectors :
          /\ procs[p].pc # "propagated"
          /\ CollectReturned(p) =>
                /\ procs[p].wrote # <<>>
                /\ AssignedBy(p).time = Some(Now(p))
                /\ procs[p].exc # None =>
                      /\ AssignedBy(p).status = "error"
                      /\ AssignedBy(p).error = procs[p].exc
                /\ procs[p].exc = None =>
                      /\ AssignedBy(p).status = "success"
                      /\ procs[p].record_id # None
                      /\ AssignedBy(p).data[1].record_id = procs[p].record_id[1]
    /\ \A d \in Written :
          d.status = "success" => Saved(d.data[1].record_id)

\* the /collect run failed with no zones, the scheduled run after it saved
\* a row and the status is 'success' again
C27_Witness ==
    /\ procs[ManualCollect].pc = "responded"
    /\ procs[ManualCollect].exc = Some("No zones found")
    /\ procs[ManualCollect].seen[1].status = "error"
    /\ CollectReturned(Scheduler)
    /\ last_collection.status = "success"
    /\ last_collection.time = Some(<<"scheduler", 1>>)

(* C28 *)

\* a run of a collector is over
RunEnded(p) == procs[p].pc \in {"done", "responded", "returned", "raised"}

\* C28: for the sentinel 128 get_thermostat_data returns outdoor_temp None
\* and adjusted_outdoor_temp None, and a run of either collector that got
\* such data, and whose database statements did not fail, has saved a row
\* with those two fields null.
C28_SentinelReadingSaved ==
    /\ \A zones \in ZoneReports :
          (zones # <<>> /\ zones[1].OutdoorTemperature = NoOutdoorReading) =>
              LET got == get_thermostat_data(zones) IN
              /\ ~got.raised
              /\ got.data[1].outdoor_temp = None
              /\ got.data[1].adjusted_outdoor_temp = None
    /\ \A p \in Collectors \cup {Main} :
          (/\ RunEnded(p)
           /\ procs[p].data # None
           /\ procs[p].data[1].outdoor_temp = None
           /\ procs[p].exc # Some("OperationalError")) =>
              /\ procs[p].record_id # None
              /\ \E i \in 1..Len(thermostat_readings) :
                    /\ thermostat_readings[i].id = procs[p].record_id[1]
                    /\ thermostat_readings[i].outdoor_temp = None
                    /\ thermostat_readings[i].adjusted_outdoor_temp = None

====
